---------------------------- MODULE Spec2Model ----------------------------
(***************************************************************************)
(* The expense ledger of src/src/expense_tracker.py: three SQLite tables   *)
(* (users, expenses, budgets) behind one ExpenseTracker object, the clock  *)
(* read by datetime.now(), and the outcome of the most recent call.        *)
(*                                                                         *)
(* Money is modelled by integers (every amount used is a whole number, so  *)
(* the REAL sums are exact); an alert threshold is a whole number of       *)
(* tenths (0.1 is 1).  Strings that the code formats and matches *)
(* (dates, month keys) are sequences of one-character strings.  Python's   *)
(* None and SQL's NULL are the empty sequence, a present value x is <<x>>. *)
(***************************************************************************)
EXTENDS Integers, Sequences, FiniteSets, TLC

-----------------------------------------------------------------------------
(* Input domains and bounds *)

\* Rows stored in the three tables, in total.
MaxRows == 3

Emails == {"test@example.com", "other@example.com"}
Names == {"Test User", "Other User"}
UserIds == {1, 2}
Categories == {"Food", "food"}
Amounts == {90}
BudgetAmounts == {0, 100}
Descriptions == {"Lunch"}

\* alert_threshold=0.1, in tenths
DefaultThreshold == 1
Thresholds == {DefaultThreshold}

\* The days datetime.now() passes through, in order.
Calendar ==
  << [year |-> 2025, month |-> 4, day |-> 30],
     [year |-> 2025, month |-> 5, day |-> 1] >>

None == << >>
Some(x) == << x >>

-----------------------------------------------------------------------------
(* State *)

VARIABLES
  users,     \* table users: sequence of rows, in rowid order
  expenses,  \* table expenses
  budgets,   \* table budgets
  clock,     \* index in Calendar of the day datetime.now() reports
  last       \* the most recent call: its arguments and what it returned or raised

vars == << users, expenses, budgets, clock, last >>

-----------------------------------------------------------------------------
(* Formatting and matching of dates *)

DigitChars == << "0", "1", "2", "3", "4", "5", "6", "7", "8", "9" >>
Digit(n) == DigitChars[n + 1]

\* %m, %d: two digits, zero padded
Fmt2(n) == << Digit((n \div 10) % 10), Digit(n % 10) >>
\* %Y: four digits
Fmt4(n) ==
  << Digit((n \div 1000) % 10), Digit((n \div 100) % 10),
     Digit((n \div 10) % 10), Digit(n % 10) >>

\* datetime.now()
now == Calendar[clock]

\* strftime("%Y-%m")
strftime_Ym(dt) == Fmt4(dt.year) \o << "-" >> \o Fmt2(dt.month)
\* strftime("%Y-%m-%d")
strftime_Ymd(dt) == strftime_Ym(dt) \o << "-" >> \o Fmt2(dt.day)

\* s LIKE prefix || '%', for a prefix of digits and dashes (no wildcard in it)
LikePrefix(s, prefix) ==
  /\ Len(s) >= Len(prefix)
  /\ SubSeq(s, 1, Len(prefix)) = prefix

\* The month keys a caller passes to get_monthly_spending and generate_report:
\* the "YYYY-MM" strings of the calendar.
MonthKeys == { strftime_Ym(Calendar[k]) : k \in DOMAIN Calendar }
\* The month keys a caller passes to set_budget: the month the calendar starts
\* in, which is the current month at first and another month after a Tick.
BudgetMonths == { strftime_Ym(Calendar[1]) }

-----------------------------------------------------------------------------
(* The store *)

\* A faulty variant of NextId: the largest rowid is handed out again.
NextIdReused(table) ==
  IF table = << >> THEN 1
  ELSE CHOOSE m \in { table[i].id : i \in DOMAIN table } :
         \A i \in DOMAIN table : table[i].id <= m
\* INTEGER PRIMARY KEY with no value supplied: one more than the largest rowid
NextId(table) ==
  IF table = << >> THEN 1
  ELSE 1 + (CHOOSE m \in { table[i].id : i \in DOMAIN table } :
              \A i \in DOMAIN table : table[i].id <= m)

\* SELECT ... WHERE is SelectSeq: the rows of a table that satisfy the WHERE
\* clause, in rowid order (expenses and budgets have no index but the rowid;
\* a query on users matches one row at most).

\* cursor.fetchone(): the first row of the result, or None
fetchone(rows) == IF rows = << >> THEN None ELSE Some(Head(rows))

\* SUM(amount) over a result: NULL when it has no row
RECURSIVE SqlSum(_)
SqlSum(rows) ==
  IF rows = << >> THEN None
  ELSE LET rest == SqlSum(Tail(rows))
       IN  Some(Head(rows).amount + (IF rest = None THEN 0 ELSE rest[1]))

\* The budgets table declares one uniqueness constraint, its primary key id:
\* two rows conflict when they have the same id.
BudgetsConflict(r, s) == r.id = s.id

\* INSERT OR REPLACE: the rows in conflict with the new one are deleted, then
\* the new row is inserted.
InsertOrReplace(table, row) ==
  LET Keep(r) == ~ BudgetsConflict(r, row)
  IN  Append(SelectSeq(table, Keep), row)

-----------------------------------------------------------------------------
(* The queries of ExpenseTracker *)

\* get_user_id(email): the id stored for the email, or None
UserIdIn(table, email) ==
  LET Where(r) == r.email = email
      result == fetchone(SelectSeq(table, Where))
  IN  IF result # None THEN Some(result[1].id) ELSE None

get_user_id(email) == UserIdIn(users, email)

\* A faulty variant of Spending: the category is left out of the WHERE clause.
SpendingDateOnly(table, user_id, category, month) ==
  LET Where(r) == r.user_id = user_id /\ LikePrefix(r.date, month)
      result == SqlSum(SelectSeq(table, Where))
  IN  IF result = None \/ result[1] = 0 THEN 0 ELSE result[1]
\* get_monthly_spending over a given expenses table
Spending(table, user_id, category, month) ==
  LET Where(r) ==
        /\ r.user_id = user_id
        /\ r.category = category
        /\ LikePrefix(r.date, month)
      result == SqlSum(SelectSeq(table, Where))
  IN  IF result = None \/ result[1] = 0 THEN 0 ELSE result[1]

get_monthly_spending(user_id, category, month) ==
  Spending(expenses, user_id, category, month)

\* A faulty variant of BudgetData: the month is left out of the WHERE clause.
BudgetDataAnyMonth(user_id, category, month) ==
  LET Where(r) == r.user_id = user_id /\ r.category = category
  IN  fetchone(SelectSeq(budgets, Where))
\* The SELECT of check_budget and its fetchone()
BudgetData(user_id, category, month) ==
  LET Where(r) ==
        /\ r.user_id = user_id
        /\ r.category = category
        /\ r.month = month
  IN  fetchone(SelectSeq(budgets, Where))

\* remaining_percent <= threshold, for budget # 0:
\* (budget - total_spent) / budget <= tenths / 10
RemainingAtMost(budget, total_spent, tenths) ==
  IF budget > 0
  THEN 10 * (budget - total_spent) <= tenths * budget
  ELSE 10 * (budget - total_spent) >= tenths * budget

\* A faulty variant of send_alert: the SMTP session runs outside any try.
send_alert_raising(user_id, subject, smtpOk) ==
  LET Where(r) == r.id = user_id
      row == fetchone(SelectSeq(users, Where))
  IN  IF row = None
      THEN [result |-> "TypeError", subject |-> subject,
            attempts |-> 0, delivered |-> FALSE]
      ELSE [result |-> IF smtpOk THEN "ok" ELSE "SMTPException",
            subject |-> subject, attempts |-> 1, delivered |-> smtpOk]
\* send_alert(user_id, ...): the user's email is looked up outside the try,
\* the SMTP session runs inside it.  smtpOk: whether the delivery succeeds.
send_alert(user_id, subject, smtpOk) ==
  LET Where(r) == r.id = user_id
      row == fetchone(SelectSeq(users, Where))
  IN  IF row = None
      THEN [result |-> "TypeError", subject |-> subject,
            attempts |-> 0, delivered |-> FALSE]
      ELSE [result |-> "ok", subject |-> subject,
            attempts |-> 1, delivered |-> smtpOk]

\* check_budget(user_id, category) once the expense is stored in table
check_budget(table, user_id, category, smtpOk) ==
  LET month == strftime_Ym(now)
      budget_data == BudgetData(user_id, category, month)
      quiet == [result |-> "ok", subject |-> "", attempts |-> 0,
                delivered |-> FALSE]
  IN  IF budget_data = None THEN quiet @@ [budget |-> None]
      ELSE
        LET budget == budget_data[1].amount
            threshold == budget_data[1].alert_threshold
            total_spent == Spending(table, user_id, category, month)
            outcome ==
              IF budget = 0
              THEN [quiet EXCEPT !.result = "ZeroDivisionError"]
              ELSE IF total_spent > budget
              THEN send_alert(user_id, "Budget exceeded", smtpOk)
              ELSE IF RemainingAtMost(budget, total_spent, threshold)
              THEN send_alert(user_id, "Low budget warning", smtpOk)
              ELSE quiet
        IN  outcome @@ [budget |-> Some(<< budget, threshold >>)]

\* generate_report: dict(fetchall()) of the category sums ...
ReportExpenses(user_id, month) ==
  LET Where(r) == r.user_id = user_id /\ LikePrefix(r.date, month)
      rows == SelectSeq(expenses, Where)
      Group(c) == LET InGroup(r) == r.category = c IN SelectSeq(rows, InGroup)
      keys == { rows[i].category : i \in DOMAIN rows }
  IN  [ c \in keys |-> SqlSum(Group(c))[1] ]

\* ... and dict(fetchall()) of the budget rows: a later row of a category
\* overwrites an earlier one
ReportBudgets(user_id, month) ==
  LET Where(r) == r.user_id = user_id /\ r.month = month
      rows == SelectSeq(budgets, Where)
      keys == { rows[i].category : i \in DOMAIN rows }
      LastOf(c) ==
        CHOOSE i \in DOMAIN rows :
          /\ rows[i].category = c
          /\ \A j \in DOMAIN rows : rows[j].category = c => j <= i
  IN  [ c \in keys |-> rows[LastOf(c)].amount ]

\* A faulty variant of ReportStatus: a budget of 0 is compared like any other.
ReportStatusStrict(spent, budget) ==
  IF spent <= budget THEN "Under" ELSE "Over"
\* status = "Under" if spent <= budget or budget == 0 else "Over"
ReportStatus(spent, budget) ==
  IF spent <= budget \/ budget = 0 THEN "Under" ELSE "Over"

\* The lines of the report below its header, one per category of the union;
\* their order (that of a Python set) is not modelled.
generate_report(user_id, month) ==
  LET exp == ReportExpenses(user_id, month)
      bud == ReportBudgets(user_id, month)
  IN  { [category |-> c,
         spent |-> IF c \in DOMAIN exp THEN exp[c] ELSE 0,
         budget |-> IF c \in DOMAIN bud THEN bud[c] ELSE 0,
         status |-> ReportStatus(IF c \in DOMAIN exp THEN exp[c] ELSE 0,
                                 IF c \in DOMAIN bud THEN bud[c] ELSE 0)]
        : c \in (DOMAIN exp) \cup (DOMAIN bud) }

-----------------------------------------------------------------------------
(* The operations *)

Rows == Len(users) + Len(expenses) + Len(budgets)

Init ==
  /\ users = << >>
  /\ expenses = << >>
  /\ budgets = << >>
  /\ clock = 1
  /\ last = [op |-> "none"]

\* A faulty variant of AddUser: INSERT OR REPLACE instead of the fallback to
\* get_user_id.
AddUserReplace(email, name) ==
  /\ Rows < MaxRows \/ \E i \in DOMAIN users : users[i].email = email
  /\ LET Keep(r) == r.email # email
     IN  users' = Append(SelectSeq(users, Keep),
                         [id |-> NextId(users), email |-> email, name |-> name])
  /\ last' = [op |-> "add_user", email |-> email, name |-> name,
              ret |-> Some(NextId(users))]
  /\ UNCHANGED << expenses, budgets, clock >>
\* add_user(email, name)
AddUser(email, name) ==
  /\ IF \E i \in DOMAIN users : users[i].email = email
     THEN \* UNIQUE(email): sqlite3.IntegrityError, caught
          /\ users' = users
          /\ last' = [op |-> "add_user", email |-> email, name |-> name,
                      ret |-> get_user_id(email)]
     ELSE /\ Rows < MaxRows
          /\ users' = Append(users, [id |-> NextId(users), email |-> email,
                                     name |-> name])
          /\ last' = [op |-> "add_user", email |-> email, name |-> name,
                      ret |-> Some(NextId(users))]
  /\ UNCHANGED << expenses, budgets, clock >>

\* get_user_id(email)
GetUserId(email) ==
  /\ last' = [op |-> "get_user_id", ret |-> get_user_id(email)]
  /\ UNCHANGED << users, expenses, budgets, clock >>

\* The row log_expense inserts
ExpenseRow(user_id, amount, category, description, shared_with) ==
  [id |-> NextId(expenses), user_id |-> user_id, amount |-> amount,
   category |-> category, description |-> description,
   date |-> strftime_Ymd(now),
   shared_with |-> IF shared_with = None THEN "" ELSE shared_with[1]]

\* A faulty variant of LogExpense: the INSERT is committed after check_budget
\* only, so a fault in the check loses the row.
LogExpenseRollback(user_id, amount, category, description, shared_with, smtpOk) ==
  /\ Rows < MaxRows
  /\ LET table == Append(expenses, ExpenseRow(user_id, amount, category,
                                              description, shared_with))
         outcome == check_budget(table, user_id, category, smtpOk)
     IN  /\ expenses' = IF outcome.result = "ok" THEN table ELSE expenses
         /\ last' = [op |-> "log_expense", user_id |-> user_id,
                     amount |-> amount, category |-> category] @@ outcome
  /\ UNCHANGED << users, budgets, clock >>
\* log_expense(user_id, amount, category, description, shared_with): the
\* INSERT is committed, then check_budget runs on the committed table.
LogExpense(user_id, amount, category, description, shared_with, smtpOk) ==
  /\ Rows < MaxRows
  /\ LET table == Append(expenses, ExpenseRow(user_id, amount, category,
                                              description, shared_with))
         outcome == check_budget(table, user_id, category, smtpOk)
     IN  /\ expenses' = table
         /\ last' = [op |-> "log_expense", user_id |-> user_id,
                     amount |-> amount, category |-> category] @@ outcome
  /\ UNCHANGED << users, budgets, clock >>

\* set_budget(user_id, category, amount, month, alert_threshold)
SetBudget(user_id, category, amount, month, alert_threshold) ==
  /\ Rows < MaxRows
  /\ budgets' = InsertOrReplace(budgets,
       [id |-> NextId(budgets), user_id |-> user_id, category |-> category,
        amount |-> amount, month |-> month,
        alert_threshold |-> alert_threshold])
  /\ last' = [op |-> "set_budget", user_id |-> user_id, category |-> category,
              amount |-> amount, month |-> month,
              alert_threshold |-> alert_threshold]
  /\ UNCHANGED << users, expenses, clock >>

\* get_monthly_spending(user_id, category, month)
GetMonthlySpending(user_id, category, month) ==
  /\ last' = [op |-> "get_monthly_spending",
              ret |-> get_monthly_spending(user_id, category, month)]
  /\ UNCHANGED << users, expenses, budgets, clock >>

\* generate_report(user_id, month)
GenerateReport(user_id, month) ==
  /\ last' = [op |-> "generate_report",
              ret |-> generate_report(user_id, month)]
  /\ UNCHANGED << users, expenses, budgets, clock >>

\* A day passes between two calls.
Tick ==
  /\ clock < Len(Calendar)
  /\ clock' = clock + 1
  /\ last' = [op |-> "none"]
  /\ UNCHANGED << users, expenses, budgets >>

Next ==
  \/ \E email \in Emails, name \in Names : AddUser(email, name)
  \/ \E email \in Emails : GetUserId(email)
  \/ \E user_id \in UserIds, amount \in Amounts, category \in Categories,
        description \in Descriptions, smtpOk \in BOOLEAN :
       LogExpense(user_id, amount, category, description, None, smtpOk)
  \/ \E user_id \in UserIds, category \in Categories,
        amount \in BudgetAmounts, month \in BudgetMonths,
        alert_threshold \in Thresholds :
       SetBudget(user_id, category, amount, month, alert_threshold)
  \/ \E user_id \in UserIds, category \in Categories, month \in MonthKeys :
       GetMonthlySpending(user_id, category, month)
  \/ \E user_id \in UserIds, month \in MonthKeys :
       GenerateReport(user_id, month)
  \/ Tick

Spec == Init /\ [][Next]_vars

-----------------------------------------------------------------------------
(* What the properties below are stated with *)

\* The month datetime.now() is in, as check_budget formats it
curMonth == strftime_Ym(now)

\* A stored date "YYYY-MM-DD" lies in the month "YYYY-MM": same year field,
\* same month field
InMonth(date, month) ==
  /\ SubSeq(date, 1, 4) = SubSeq(month, 1, 4)
  /\ SubSeq(date, 6, 7) = SubSeq(month, 6, 7)

\* The stored expenses of a user, a category and a month, and their total
ExpensesOf(user_id, category, month) ==
  { i \in DOMAIN expenses :
      /\ expenses[i].user_id = user_id
      /\ expenses[i].category = category
      /\ InMonth(expenses[i].date, month) }

RECURSIVE SumAmounts(_)
SumAmounts(S) ==
  IF S = {} THEN 0
  ELSE LET i == CHOOSE i \in S : TRUE
       IN  expenses[i].amount + SumAmounts(S \ {i})

\* The stored budget rows of a key
BudgetRowsFor(user_id, category, month) ==
  { i \in DOMAIN budgets :
      /\ budgets[i].user_id = user_id
      /\ budgets[i].category = category
      /\ budgets[i].month = month }

\* The row of the most recent set_budget call among some rows
Latest(S) == CHOOSE i \in S : \A j \in S : budgets[j].id <= budgets[i].id

\* The most recent call was log_expense, and its row is the newest stored one
LoggedRowStored ==
  /\ expenses # << >>
  /\ LET r == expenses[Len(expenses)]
     IN  /\ r.user_id = last.user_id
         /\ r.amount = last.amount
         /\ r.category = last.category
         /\ r.date = strftime_Ymd(now)
         /\ \A i \in 1 .. Len(expenses) - 1 : expenses[i].id # r.id

\* The alert the decision rule picks for a budget, a threshold in tenths and
\* the total spent: "" stands for no alert
AlertDue(budget, tenths, total) ==
  IF total > budget THEN "Budget exceeded"
  ELSE IF (budget > 0 /\ 10 * (budget - total) <= tenths * budget)
          \/ (budget < 0 /\ 10 * (budget - total) >= tenths * budget)
       THEN "Low budget warning"
       ELSE ""

-----------------------------------------------------------------------------
(* The claims *)

\* C1: the budgets table holds at most one row per (user_id, category, month),
\* and after set_budget the rows of its key carry the amount and the
\* alert_threshold of that call.
C1_OneBudgetRowPerKey ==
  /\ \A i, j \in DOMAIN budgets :
       ( /\ budgets[i].user_id = budgets[j].user_id
         /\ budgets[i].category = budgets[j].category
         /\ budgets[i].month = budgets[j].month ) => i = j
  /\ last.op = "set_budget" =>
       \A i \in BudgetRowsFor(last.user_id, last.category, last.month) :
         /\ budgets[i].amount = last.amount
         /\ budgets[i].alert_threshold = last.alert_threshold

\* C2: add_user is idempotent per email: the id it returns is the id stored
\* for the email (what get_user_id returns afterwards), which is the id stored
\* before the call when the email was already registered; there is one row
\* per email, and no step changes a stored user row.
C2_AddUserIdempotent ==
  [][ /\ \A i \in DOMAIN users : i \in DOMAIN users' /\ users'[i] = users[i]
      /\ \A i, j \in DOMAIN users' :
           users'[i].email = users'[j].email => i = j
      /\ last'.op = "add_user" =>
           /\ last'.ret # None
           /\ last'.ret = UserIdIn(users', last'.email)
           /\ Cardinality({ i \in DOMAIN users' :
                              users'[i].email = last'.email }) = 1
           /\ UserIdIn(users, last'.email) # None =>
                /\ last'.ret = UserIdIn(users, last'.email)
                /\ users' = users
    ]_vars

\* A second registration of an email under another name returned its id, and
\* the stored name is still the first one.
C2_Witness ==
  /\ last.op = "add_user"
  /\ Len(users) = 2
  /\ \E i \in DOMAIN users :
       /\ users[i].email = last.email
       /\ users[i].name # last.name
       /\ last.ret = Some(users[i].id)

\* C3: get_monthly_spending(user_id, category, month) is the sum of the
\* amounts of the stored expenses of that user, that category (exact match)
\* and a date in that month, 0 when there is none; after log_expense of
\* amount A, the value for the current month is A more than the sum over the
\* rows stored before.
C3_MonthlySpendingIsSum ==
  /\ \A user_id \in UserIds, category \in Categories, month \in MonthKeys :
       get_monthly_spending(user_id, category, month)
         = SumAmounts(ExpensesOf(user_id, category, month))
  /\ last.op = "log_expense" =>
       get_monthly_spending(last.user_id, last.category, curMonth)
         = last.amount
           + SumAmounts(ExpensesOf(last.user_id, last.category, curMonth)
                        \ {Len(expenses)})

\* get_monthly_spending returned the sum of two expenses while a third one,
\* of another user, category or month, is stored.
C3_Witness ==
  /\ last.op = "get_monthly_spending"
  /\ Len(expenses) = 3
  /\ \E user_id \in UserIds, category \in Categories, month \in MonthKeys :
       /\ Cardinality(ExpensesOf(user_id, category, month)) = 2
       /\ last.ret = get_monthly_spending(user_id, category, month)
       /\ last.ret = expenses[1].amount + expenses[2].amount

\* C4: when a budget row of non-zero amount exists for (user_id, category,
\* current month), log_expense raises at most one alert, and it is the one the
\* rule picks from such a row and the total spent including the new expense:
\* "Budget exceeded" if the total is over the budget, else "Low budget
\* warning" if the remaining fraction is at most the threshold, else none.
C4_AlertFollowsBudget ==
  last.op = "log_expense" =>
    LET rows == BudgetRowsFor(last.user_id, last.category, curMonth)
        nonZero == { i \in rows : budgets[i].amount # 0 }
        total == SumAmounts(ExpensesOf(last.user_id, last.category, curMonth))
    IN  nonZero # {} =>
          /\ last.attempts <= 1
          /\ \E i \in nonZero :
               last.subject = AlertDue(budgets[i].amount,
                                       budgets[i].alert_threshold, total)

\* C5: generate_report(user_id, month) has one row for each category with an
\* expense of the user in the month or a budget of the user for the month, and
\* no other row; a row shows the category's summed spending (0 if none) and
\* its budget amount (that of the most recent set_budget; 0 if unset), with
\* status "Under" exactly when spent <= budget or budget = 0, "Over" otherwise.
C5_ReportRows ==
  \A user_id \in UserIds, month \in MonthKeys :
    LET report == generate_report(user_id, month)
        spentCats == { c \in Categories : ExpensesOf(user_id, c, month) # {} }
        budgetCats == { c \in Categories :
                          BudgetRowsFor(user_id, c, month) # {} }
    IN  /\ { r.category : r \in report } = spentCats \cup budgetCats
        /\ \A r, s \in report : r.category = s.category => r = s
        /\ \A r \in report :
             /\ r.spent = SumAmounts(ExpensesOf(user_id, r.category, month))
             /\ r.budget =
                  IF r.category \in budgetCats
                  THEN budgets[Latest(BudgetRowsFor(user_id, r.category,
                                                    month))].amount
                  ELSE 0
             /\ r.status \in {"Under", "Over"}
             /\ r.status = "Under" <=> (r.spent <= r.budget \/ r.budget = 0)

\* generate_report returned two rows: a category with spending and a budget
\* of 0, marked "Under", and a category that has a budget only.
C5_Witness ==
  /\ last.op = "generate_report"
  /\ Cardinality(last.ret) = 2
  /\ \E r \in last.ret : r.spent > 0 /\ r.budget = 0 /\ r.status = "Under"
  /\ \E r \in last.ret : r.spent = 0 /\ r.budget > 0

\* C6: when the delivery of an alert fails, log_expense returns normally, the
\* delivery was attempted once, the expense is stored, and no other stored
\* row changed.
C6_DeliveryFailureSwallowed ==
  [][ ( /\ last'.op = "log_expense"
        /\ expenses' # expenses
        /\ last'.attempts >= 1
        /\ ~ last'.delivered )
      => /\ last'.result = "ok"
         /\ last'.attempts = 1
         /\ Len(expenses') = Len(expenses) + 1
         /\ SubSeq(expenses', 1, Len(expenses)) = expenses
         /\ expenses'[Len(expenses')].user_id = last'.user_id
         /\ expenses'[Len(expenses')].amount = last'.amount
         /\ expenses'[Len(expenses')].category = last'.category
         /\ users' = users
         /\ budgets' = budgets
    ]_vars

\* log_expense returned normally although the delivery of its alert failed.
C6_Witness ==
  /\ last.op = "log_expense"
  /\ last.attempts = 1
  /\ ~ last.delivered
  /\ last.subject = "Low budget warning"
  /\ last.result = "ok"
  /\ LoggedRowStored

\* C7: with no budget row for (user_id, category, current month), log_expense
\* stores the expense, raises no alert and no error.
C7_NoBudgetNoAlert ==
  ( /\ last.op = "log_expense"
    /\ BudgetRowsFor(last.user_id, last.category, curMonth) = {} )
  => /\ last.result = "ok"
     /\ last.subject = ""
     /\ last.attempts = 0
     /\ ~ last.delivered
     /\ LoggedRowStored

\* log_expense for a user id with no user row, whose only budgets are one of
\* the same category for another month and one of another category.
C7_Witness ==
  /\ last.op = "log_expense"
  /\ BudgetRowsFor(last.user_id, last.category, curMonth) = {}
  /\ \A i \in DOMAIN users : users[i].id # last.user_id
  /\ \E i \in DOMAIN budgets :
       /\ budgets[i].user_id = last.user_id
       /\ budgets[i].category = last.category
       /\ budgets[i].month # curMonth
  /\ \E i \in DOMAIN budgets :
       /\ budgets[i].user_id = last.user_id
       /\ budgets[i].category # last.category
  /\ last.result = "ok"

\* C8: a log_expense call appends one expense row, dated today and with a new
\* id, and changes no other row; no step changes or removes a stored expense
\* or user.
C8_LogExpenseAppendsOnly ==
  [][ /\ \A i \in DOMAIN expenses :
           i \in DOMAIN expenses' /\ expenses'[i] = expenses[i]
      /\ \A i \in DOMAIN users : i \in DOMAIN users' /\ users'[i] = users[i]
      /\ (last'.op = "log_expense" /\ vars' # vars) =>
           /\ Len(expenses') = Len(expenses) + 1
           /\ LET r == expenses'[Len(expenses')]
              IN  /\ r.user_id = last'.user_id
                  /\ r.amount = last'.amount
                  /\ r.category = last'.category
                  /\ r.date = strftime_Ymd(now)
                  /\ \A i \in DOMAIN expenses : expenses[i].id # r.id
           /\ users' = users
           /\ budgets' = budgets
    ]_vars

\* Two log_expense calls with the same arguments on the same day left two
\* rows that differ in their id only.
C8_Witness ==
  /\ last.op = "log_expense"
  /\ Len(expenses) >= 2
  /\ LET r == expenses[Len(expenses)]
         q == expenses[Len(expenses) - 1]
     IN  /\ r.id # q.id
         /\ [r EXCEPT !.id = q.id] = q

\* C9: the amount and threshold the alert check of log_expense reads are those
\* of the most recent set_budget call of the key, and generate_report shows
\* that amount for the category.
C9_CheckAndReportAgree ==
  ( /\ last.op = "log_expense"
    /\ BudgetRowsFor(last.user_id, last.category, curMonth) # {} )
  => LET i == Latest(BudgetRowsFor(last.user_id, last.category, curMonth))
         shown == ReportBudgets(last.user_id, curMonth)
     IN  /\ last.budget = Some(<< budgets[i].amount,
                                  budgets[i].alert_threshold >>)
         /\ last.category \in DOMAIN shown
         /\ last.budget = Some(<< shown[last.category],
                                  budgets[i].alert_threshold >>)

\* C10: when log_expense ends with a fault of the budget check (a budget of
\* amount 0, or an alert due for a user id with no user row), no alert is
\* sent and the expense of the call is stored: get_monthly_spending and
\* generate_report count it.
C10_FaultKeepsExpense ==
  ( /\ last.op = "log_expense"
    /\ last.result # "ok" )
  => /\ last.attempts = 0
     /\ ~ last.delivered
     /\ LoggedRowStored
     /\ last.result \in {"ZeroDivisionError", "TypeError"}
     /\ last.result = "ZeroDivisionError" =>
          last.budget # None /\ last.budget[1][1] = 0
     /\ last.result = "TypeError" =>
          /\ last.subject # ""
          /\ \A i \in DOMAIN users : users[i].id # last.user_id
     /\ Len(expenses) \in ExpensesOf(last.user_id, last.category, curMonth)
     /\ get_monthly_spending(last.user_id, last.category, curMonth)
          = SumAmounts(ExpensesOf(last.user_id, last.category, curMonth))
     /\ get_monthly_spending(last.user_id, last.category, curMonth)
          >= last.amount
     /\ \E r \in generate_report(last.user_id, curMonth) :
          /\ r.category = last.category
          /\ r.spent = get_monthly_spending(last.user_id, last.category,
                                            curMonth)

\* log_expense ended with the arithmetic fault of a zero budget after an
\* earlier expense of the key, and both expenses are stored.
C10_Witness ==
  /\ last.op = "log_expense"
  /\ last.result = "ZeroDivisionError"
  /\ LoggedRowStored
  /\ Cardinality(ExpensesOf(last.user_id, last.category, curMonth)) = 2

=============================================================================
